---- MODULE Spec2Model ----
(***************************************************************************)
(* OurSchool: grading, term-grade roll-up and the points ledger.           *)
(*                                                                         *)
(* The variables hold the COMMITTED contents of the relational store plus, *)
(* for each request being served, the position of its handler and the     *)
(* values its SQLAlchemy session has loaded or changed but not yet         *)
(* committed.  The session is created with autoflush=False                 *)
(* (app/core/database.py:40), so a query never sees the session's own      *)
(* pending changes, and a commit writes every pending change at once.      *)
(* The store runs at READ COMMITTED: every statement reads the latest      *)
(* committed rows, and an UPDATE writes the columns the session changed.   *)
(*                                                                         *)
(* Point quantities of assignments are Floats in the source; here they are *)
(* integers counted in units of 1/PointsScale point, so fractions of one exist. *)
(* Ledger amounts and balances are Integer columns and are whole points.   *)
(***************************************************************************)
EXTENDS Integers, FiniteSets, Sequences, TLC

\* ---------------------------------------------------------------- bounds
MaxReq == 3            \* requests served in one behaviour
MaxDay == 2            \* last calendar day of a behaviour
PointsScale == 2       \* Float points are counted in 1/PointsScale points
PctScale == 100        \* Float percentages are kept in 1/PctScale percent
MaxLetterPoints == 100 \* max_points of the assignment whose letter is taken
MaxRecords == 3        \* attendance records in one list
MaxRequired == 3       \* largest required_days_of_instruction

\* ------------------------------------------------------- fixed test data

Procs == {"p1", "p2"}
Students == {"s1", "s2"}
Assignments == {"a1", "a2"}
TermIds == {"t1", "t2"}
TermOrders == {1, 2}     \* Term.term_order within the one academic year
Subjects == {"math"}
Days == 1..MaxDay

NoPoints == -1         \* SQL NULL in a numeric column
NoDay == 0             \* SQL NULL in a date column
NoLetter == "none"     \* SQL NULL in letter_grade
NoSource == "none"     \* SQL NULL in source_id
NoUser == "none"       \* SQL NULL in finalized_by
Admins == {"admin"}

\* The StudentAssignment rows and their templates that exist initially.
AssignStudent(a) == "s1"
AssignSubject(a) == "math"
AssignedDate(a) == IF a = "a1" THEN 1 ELSE 2
TemplateMaxPoints(a) == 1
CustomMaxPoints(a) == IF a = "a2" THEN 2 ELSE NoPoints

\* points a grading request may carry, in 1/PointsScale points: none, a
\* fraction of a point, one point, two points
GradePoints == {0, 1, PointsScale, 2 * PointsScale}
\* signed amounts of an admin adjustment, whole points
AdjustAmounts == {-1, 0, 2}
\* values a request may give max_points or custom_max_points (ge=1)
MaxPointChoices == {1, 2}
AttendanceStatuses == {"present", "absent", "late", "excused"}
\* the statuses the attendance requests of a behaviour carry
MarkedStatuses == {"present", "absent"}
\* the student_ids lists of bulk requests: one or two ids, repeats included
StudentIdLists == UNION {[1..n -> Students] : n \in 1..2}
\* the lists of attendance statuses of at most MaxRecords records
StatusLists == UNION {[1..n -> AttendanceStatuses] : n \in 0..MaxRecords}

VARIABLES
    users,          \* student User rows
    assign,         \* StudentAssignment rows
    terms,          \* Term rows
    term_subjects,  \* TermSubject rows, as <<term, subject>>
    stg,            \* StudentTermGrade rows, by <<student, term, subject>>
    sp,             \* StudentPoints rows, by student
    ledger,         \* PointTransaction rows
    next_tx_id,     \* the sequence behind PointTransaction.id
    setting,        \* SystemSettings value of points_system_enabled
    today,          \* date.today()
    nreq,           \* requests received so far
    req,            \* per request process: handler position and session state
    attendance,     \* AttendanceRecord rows
    next_att_id,    \* the sequence behind AttendanceRecord.id
    calc            \* the last call of a pure function: arguments and result

vars == <<users, assign, terms, term_subjects, stg, sp, ledger, next_tx_id,
          setting, today, nreq, req, attendance, next_att_id, calc>>

\* what the grading, term and points handlers never touch
rest == <<attendance, next_att_id, calc>>

dbvars == <<users, assign, terms, term_subjects, stg, sp, ledger, next_tx_id,
            setting>>

\* ------------------------------------------------------------ row shapes
\* a StudentAssignment as assign_template_to_students leaves it, with the
\* max_points of its template
NewAssignment(a) ==
    [exists |-> TRUE, points_earned |-> NoPoints,
     percentage_grade |-> NoPoints, letter_grade |-> NoLetter,
     is_graded |-> FALSE, completed_date |-> NoDay,
     custom_max_points |-> CustomMaxPoints(a),
     template_max_points |-> TemplateMaxPoints(a),
     status |-> "not_started", started_date |-> NoDay,
     submitted_date |-> NoDay, due_date |-> NoDay,
     extended_due_date |-> NoDay]

NoTerm == [exists |-> FALSE, is_active |-> FALSE, start_date |-> NoDay,
           end_date |-> NoDay, term_order |-> 0]

NoTermGrade == [exists |-> FALSE, current_points_earned |-> 0,
                current_points_possible |-> 0,
                current_percentage |-> NoPoints,
                current_letter_grade |-> NoLetter,
                final_points_earned |-> NoPoints,
                final_points_possible |-> NoPoints,
                final_percentage |-> NoPoints,
                final_letter_grade |-> NoLetter,
                is_finalized |-> FALSE,
                finalized_date |-> NoDay,
                finalized_by |-> NoUser,
                assignments_completed |-> 0, assignments_total |-> 0]

\* StudentTermGrade(student_id, term_subject_id) with the column defaults
NewTermGrade == [NoTermGrade EXCEPT !.exists = TRUE]

NoStudentPoints == [exists |-> FALSE, current_balance |-> 0,
                    total_earned |-> 0, total_spent |-> 0]

\* the last call of a function that touches no row: its arguments and
\* what it returned
NoCall == [fn |-> "none", points |-> NoPoints, given |-> NoLetter,
           percentage |-> NoPoints, letter |-> NoLetter,
           records |-> <<>>, required |-> 0, rate |-> 0]

IdleReq == [op |-> "none", pc |-> "idle", a |-> "a1", student |-> "s1",
            pts |-> NoPoints, pct |-> NoPoints, letter |-> NoLetter,
            ld_points |-> NoPoints, ld_pct |-> NoPoints,
            ld_letter |-> NoLetter, ld_status |-> "not_started",
            sent_status |-> "unset",
            amount |-> 0, ttype |-> "none",
            source |-> NoSource,
            ld_balance |-> 0, ld_earned |-> 0, ld_spent |-> 0,
            tx_pending |-> FALSE, outcome |-> "none",
            did_grade |-> FALSE, did_tx |-> FALSE, did_create |-> FALSE,
            term |-> "t1", updated |-> {}]

Init ==
    /\ users = Students
    /\ assign = [a \in Assignments |-> NewAssignment(a)]
    /\ \E act \in BOOLEAN, st \in Days :
          terms = [t \in TermIds |->
                     IF t = "t1"
                     THEN [exists |-> TRUE, is_active |-> act,
                           start_date |-> st, end_date |-> st + 1,
                           term_order |-> 1]
                     ELSE NoTerm]
    /\ term_subjects \in SUBSET ({"t1"} \X Subjects)
    /\ stg = [k \in Students \X TermIds \X Subjects |-> NoTermGrade]
    /\ sp = [s \in Students |-> NoStudentPoints]
    /\ ledger = {}
    /\ next_tx_id = 1
    /\ setting = "unset"
    /\ today = 1
    /\ nreq = 0
    /\ req = [p \in Procs |-> IdleReq]
    /\ attendance = {}
    /\ next_att_id = 1
    /\ calc = NoCall


\* ----------------------------------------------------------- arithmetic
Abs(x) == IF x < 0 THEN -x ELSE x

RECURSIVE SumOver(_, _)
\* SUM(f) over a finite set of rows (0 for the empty set)
SumOver(S, f) ==
    IF S = {} THEN 0
    ELSE LET x == CHOOSE y \in S : TRUE
         IN  f[x] + SumOver(S \ {x}, f)

\* a request arrives
Receive == nreq < MaxReq /\ nreq' = nreq + 1

\* ------------------------------------------------------ points: settings
\* (a variant for which a missing setting row counts as enabled)
is_points_system_enabled_by_default == setting # "false"

\* is_points_system_enabled: no active row -> False, else value.lower() == "true"
is_points_system_enabled == setting = "true"

\* toggle_points_system -> update_system_setting: one commit
TogglePoints ==
    /\ Receive
    /\ setting' = IF is_points_system_enabled THEN "false" ELSE "true"
    /\ UNCHANGED <<rest, users, assign, terms, term_subjects, stg, sp, ledger,
                   next_tx_id, today, req>>

\* ------------------------------------------------ points: ledger helpers
LedgerOf(s) == {tx \in ledger : tx.student_id = s}

LedgerSum(s) ==
    SumOver({tx.id : tx \in LedgerOf(s)},
            [i \in {tx.id : tx \in LedgerOf(s)} |->
               (CHOOSE tx \in ledger : tx.id = i).amount])

\* the PointTransaction row a request has built (create_point_transaction)
TxRow(r, id) == [id |-> id, student_id |-> r.student, amount |-> r.amount,
                 transaction_type |-> r.ttype, source_id |-> r.source]

\* (a variant that keeps one ledger row per student, replacing the older)
InsertTxReplacing(table, row) ==
    {tx \in table : tx.student_id # row.student_id} \cup {row}

\* db.add(db_transaction) reaching the store: the table with the row added
InsertTx(table, row) == table \cup {row}

\* (a variant that takes an amount of 0 for an award)
AdjustTypeOfNonNegative(amount) ==
    IF amount >= 0 THEN "admin_award" ELSE "admin_deduction"

\* admin_adjust_points: the transaction type from the sign of the amount
AdjustType(amount) == IF amount > 0 THEN "admin_award" ELSE "admin_deduction"

\* a request ends and its session closes: what it had not committed is gone.
\* outcome is how it ended: "ok" (a success response), "ok_award_failed" (a
\* success response although the points step raised), "error" (an error
\* response) or "crashed" (no response).
Finished(how) == [IdleReq EXCEPT !.outcome = how]

\* how a request ends whose points step raised: the grading endpoints catch
\* and log the exception (assignments.py:675-681), adjust_student_points
\* lets it through
AwardRaised(r) ==
    Finished(IF r.op = "grade" THEN "ok_award_failed" ELSE "error")

\* ------------------------------------- points: adjust_student_points
\* The endpoint up to the call of admin_adjust_points: the enabled check
\* (403), the student lookup (404), then the PointTransactionCreate.
AdjustBegin(p, s, amt) ==
    /\ req[p].pc = "idle"
    /\ Receive
    /\ IF ~is_points_system_enabled \/ s \notin users
       THEN req' = [req EXCEPT ![p] = Finished("error")]
       ELSE req' = [req EXCEPT ![p] =
                      [IdleReq EXCEPT !.op = "adjust", !.pc = "a_query",
                                      !.student = s, !.amount = amt,
                                      !.ttype = AdjustType(amt),
                                      !.tx_pending = TRUE]]
    /\ UNCHANGED <<rest, dbvars, today>>

\* --------------------------------------- points: create_point_transaction
\* get_or_create_student_points, the query (points.py:76-78).  The row is
\* loaded into the session; db.add(db_transaction) is still pending.
AwardQuery(p) ==
    LET r == req[p] IN
    /\ r.pc = "a_query"
    /\ IF sp[r.student].exists
       THEN req' = [req EXCEPT ![p] =
                      [r EXCEPT !.pc = "a_update",
                                !.ld_balance = sp[r.student].current_balance,
                                !.ld_earned = sp[r.student].total_earned,
                                !.ld_spent = sp[r.student].total_spent]]
       ELSE req' = [req EXCEPT ![p].pc = "a_create"]
    /\ UNCHANGED <<rest, dbvars, today, nreq>>

\* get_or_create_student_points, the insert (points.py:80-89): db.commit()
\* flushes the new StudentPoints row AND the pending PointTransaction.
\* student_id is unique and a foreign key: a row another request inserted
\* meanwhile, or a deleted student, makes the commit raise.
AwardCreate(p) ==
    LET r == req[p] IN
    /\ r.pc = "a_create"
    /\ IF sp[r.student].exists \/ r.student \notin users
       THEN /\ req' = [req EXCEPT ![p] = AwardRaised(r)]
            /\ UNCHANGED <<sp, ledger, next_tx_id>>
       ELSE /\ sp' = [sp EXCEPT ![r.student] =
                        [exists |-> TRUE, current_balance |-> 0,
                         total_earned |-> 0, total_spent |-> 0]]
            /\ ledger' = InsertTx(ledger, TxRow(r, next_tx_id))
            /\ next_tx_id' = next_tx_id + 1
            /\ req' = [req EXCEPT ![p] =
                         [r EXCEPT !.pc = "a_update", !.tx_pending = FALSE,
                                   !.ld_balance = 0, !.ld_earned = 0,
                                   !.ld_spent = 0,
                                   !.did_tx = TRUE, !.did_create = TRUE]]
    /\ UNCHANGED <<rest, users, assign, terms, term_subjects, stg, setting,
                   today, nreq>>

\* (a variant that adds the magnitude of the amount to the balance)
NewBalanceAbs(r) == r.ld_balance + Abs(r.amount)

\* the StudentPoints columns the session changed (points.py:114-119),
\* computed from the values it LOADED
NewBalance(r) == r.ld_balance + r.amount
NewEarned(r) == r.ld_earned + r.amount
NewSpent(r) == r.ld_spent + Abs(r.amount)

\* the row after the session's UPDATE: only the columns whose value differs
\* from the loaded one are written, so an amount of 0 writes none
UpdatedPoints(row, r) ==
    IF r.amount > 0
    THEN [row EXCEPT !.current_balance = NewBalance(r),
                     !.total_earned = NewEarned(r)]
    ELSE IF r.amount < 0
    THEN [row EXCEPT !.current_balance = NewBalance(r),
                     !.total_spent = NewSpent(r)]
    ELSE row

\* create_point_transaction, points.py:114-121: the final db.commit().
\* The UPDATE of a row that was deleted meanwhile matches nothing and
\* raises, and so does the INSERT of a ledger row for a deleted student.
AwardCommit(p) ==
    LET r == req[p] IN
    /\ r.pc = "a_update"
    /\ IF \/ r.amount # 0 /\ ~sp[r.student].exists
          \/ r.tx_pending /\ r.student \notin users
       THEN /\ req' = [req EXCEPT ![p] = AwardRaised(r)]
            /\ UNCHANGED <<sp, ledger, next_tx_id>>
       ELSE /\ sp' = [sp EXCEPT ![r.student] = UpdatedPoints(@, r)]
            /\ IF r.tx_pending
               THEN /\ ledger' = InsertTx(ledger, TxRow(r, next_tx_id))
                    /\ next_tx_id' = next_tx_id + 1
               ELSE UNCHANGED <<ledger, next_tx_id>>
            /\ req' = [req EXCEPT ![p] = Finished("ok")]
    /\ UNCHANGED <<rest, users, assign, terms, term_subjects, stg, setting,
                   today, nreq>>

\* a statement or commit of the points step raises (connection lost,
\* timeout): nothing more of the request is committed
AwardFail(p) ==
    LET r == req[p] IN
    /\ r.pc \in {"a_check", "a_query", "a_create", "a_update"}
    /\ req' = [req EXCEPT ![p] = AwardRaised(r)]
    /\ UNCHANGED <<rest, dbvars, today, nreq>>

\* the serving process stops in the middle of a request
Crash(p) ==
    LET r == req[p] IN
    /\ r.pc # "idle"
    /\ req' = [req EXCEPT ![p] = Finished("crashed")]
    /\ UNCHANGED <<rest, dbvars, today, nreq>>


\* ------------------------------------------------------------ assignments
\* (a variant that allows one point more)
max_points_and_one(row) ==
    (IF row.custom_max_points # NoPoints /\ row.custom_max_points # 0
     THEN row.custom_max_points ELSE row.template_max_points) + 1

\* StudentAssignment.max_points: custom_max_points or template.max_points,
\* in whole points
max_points(row) ==
    IF row.custom_max_points # NoPoints /\ row.custom_max_points # 0
    THEN row.custom_max_points ELSE row.template_max_points

\* func.coalesce(custom_max_points, template.max_points), in whole points
CoalesceMax(row) ==
    IF row.custom_max_points # NoPoints THEN row.custom_max_points
    ELSE row.template_max_points

\* (earned / possible) * 100, both in the same unit; NULL when possible <= 0
Percentage(earned, possible) ==
    IF possible > 0 THEN (earned * 100 * PctScale) \div possible
    ELSE NoPoints

\* TermGradingService._calculate_letter_grade
_calculate_letter_grade(percentage) ==
    IF percentage = NoPoints THEN NoLetter
    ELSE IF percentage >= 97 * PctScale THEN "A+"
    ELSE IF percentage >= 93 * PctScale THEN "A"
    ELSE IF percentage >= 90 * PctScale THEN "A-"
    ELSE IF percentage >= 87 * PctScale THEN "B+"
    ELSE IF percentage >= 83 * PctScale THEN "B"
    ELSE IF percentage >= 80 * PctScale THEN "B-"
    ELSE IF percentage >= 77 * PctScale THEN "C+"
    ELSE IF percentage >= 73 * PctScale THEN "C"
    ELSE IF percentage >= 70 * PctScale THEN "C-"
    ELSE IF percentage >= 67 * PctScale THEN "D+"
    ELSE IF percentage >= 63 * PctScale THEN "D"
    ELSE IF percentage >= 60 * PctScale THEN "D-"
    ELSE "F"

\* StudentAssignment.calculate_percentage_grade on a loaded row carrying
\* pts: the new percentage_grade, or the old one when there is nothing to
\* divide
calculate_percentage_grade(row, pts) ==
    IF pts # NoPoints /\ max_points(row) > 0
    THEN Percentage(pts, PointsScale * max_points(row))
    ELSE row.percentage_grade

\* the threshold table of grade_student_assignment (assignments.py:621-645)
AssignmentLetterGrade(percentage) ==
    IF percentage >= 97 * PctScale THEN "A+"
    ELSE IF percentage >= 93 * PctScale THEN "A"
    ELSE IF percentage >= 90 * PctScale THEN "A-"
    ELSE IF percentage >= 87 * PctScale THEN "B+"
    ELSE IF percentage >= 83 * PctScale THEN "B"
    ELSE IF percentage >= 80 * PctScale THEN "B-"
    ELSE IF percentage >= 77 * PctScale THEN "C+"
    ELSE IF percentage >= 73 * PctScale THEN "C"
    ELSE IF percentage >= 70 * PctScale THEN "C-"
    ELSE IF percentage >= 67 * PctScale THEN "D+"
    ELSE IF percentage >= 65 * PctScale THEN "D"
    ELSE "F"

\* assignments.py:620-648: the letter_grade stored for a grade submitted
\* with letter_grade = given (NoLetter when left out)
StoredLetterGrade(given, percentage) ==
    IF given = NoLetter /\ percentage # NoPoints
    THEN AssignmentLetterGrade(percentage)
    ELSE given

\* ------------------------------------- StudentAssignment.update_term_grade
\* session.query(Term).filter(Term.is_active)
ActiveTerms == {t \in TermIds : terms[t].exists /\ terms[t].is_active}

\* the rows both aggregate queries join and filter (assignment.py:250-256),
\* read from the committed table rows: student, subject, assigned_date
TermRows(rows, s, subj, t) ==
    {b \in Assignments :
        /\ rows[b].exists
        /\ AssignStudent(b) = s
        /\ AssignSubject(b) = subj
        /\ AssignedDate(b) >= terms[t].start_date
        /\ AssignedDate(b) <= terms[t].end_date}

\* func.sum(points_earned): NULL when no row has a value
SumEarned(rows, S) ==
    IF \A b \in S : rows[b].points_earned = NoPoints THEN NoPoints
    ELSE SumOver({b \in S : rows[b].points_earned # NoPoints},
                 [b \in Assignments |-> rows[b].points_earned])

\* the second query (assignment.py:263-282): graded rows only, "or 0"
SumPossible(rows, S) ==
    SumOver({b \in S : rows[b].is_graded},
            [b \in Assignments |-> PointsScale * CoalesceMax(rows[b])])

\* StudentTermGrade.calculate_current_grade
calculate_current_grade(g) ==
    [g EXCEPT !.current_percentage =
        Percentage(g.current_points_earned, g.current_points_possible)]

\* (a variant that also refreshes the final points of the row)
RecomputedTermGradeFinal(rows, old, s, subj, t) ==
    LET found == IF old.exists THEN old ELSE NewTermGrade
        S == TermRows(rows, s, subj, t)
        total_earned == SumEarned(rows, S)
    IN  IF total_earned = NoPoints THEN found
        ELSE calculate_current_grade(
               [found EXCEPT
                  !.current_points_earned = total_earned,
                  !.final_points_earned = total_earned,
                  !.current_points_possible = SumPossible(rows, S),
                  !.assignments_completed =
                      Cardinality({b \in S : rows[b].is_graded}),
                  !.assignments_total = Cardinality(S)])

\* (a variant that adds the sums to what the row already holds)
RecomputedTermGradeAccumulating(rows, old, s, subj, t) ==
    LET found == IF old.exists THEN old ELSE NewTermGrade
        S == TermRows(rows, s, subj, t)
        total_earned == SumEarned(rows, S)
    IN  IF total_earned = NoPoints THEN found
        ELSE calculate_current_grade(
               [found EXCEPT
                  !.current_points_earned = @ + total_earned,
                  !.current_points_possible = @ + SumPossible(rows, S),
                  !.assignments_completed =
                      Cardinality({b \in S : rows[b].is_graded}),
                  !.assignments_total = Cardinality(S)])

\* assignment.py:222-292: the row found or created, then recomputed from
\* what the queries return
RecomputedTermGrade(rows, old, s, subj, t) ==
    LET found == IF old.exists THEN old ELSE NewTermGrade
        S == TermRows(rows, s, subj, t)
        total_earned == SumEarned(rows, S)
    IN  IF total_earned = NoPoints THEN found
        ELSE calculate_current_grade(
               [found EXCEPT
                  !.current_points_earned = total_earned,
                  !.current_points_possible = SumPossible(rows, S),
                  !.assignments_completed =
                      Cardinality({b \in S : rows[b].is_graded}),
                  !.assignments_total = Cardinality(S)])

\* (a variant that does not look for the TermSubject link)
update_term_grade_unlinked(a, pts, t) ==
    LET s == AssignStudent(a)
        subj == AssignSubject(a)
    IN  IF pts = 0 \/ ~terms[t].is_active
        THEN stg
        ELSE [stg EXCEPT ![<<s, t, subj>>] =
                RecomputedTermGrade(assign, @, s, subj, t)]

\* update_term_grade of assignment a carrying pts in the session, for the
\* active term t.  The queries read the committed rows: with autoflush off
\* the grade the session is about to write is not among them.  The result
\* is the StudentTermGrade table after it (unchanged on an early return).
update_term_grade(a, pts, t) ==
    LET s == AssignStudent(a)
        subj == AssignSubject(a)
    IN  IF pts = 0 \/ ~terms[t].is_active \/ <<t, subj>> \notin term_subjects
        THEN stg
        ELSE [stg EXCEPT ![<<s, t, subj>>] =
                RecomputedTermGrade(assign, @, s, subj, t)]

\* -------------------------------------------- grade_student_assignment
\* (grade_assignment_via_api runs the same steps.)  Lookup of the assignment
\* (404) and of its student (404), the check against max_points (400), then
\* the new grade is set on the loaded object.
GradeBegin(p, a, pts) ==
    /\ req[p].pc = "idle"
    /\ Receive
    /\ IF ~assign[a].exists \/ AssignStudent(a) \notin users
          \/ pts > PointsScale * max_points(assign[a])
       THEN req' = [req EXCEPT ![p] = Finished("error")]
       ELSE req' = [req EXCEPT ![p] =
                      [IdleReq EXCEPT
                         !.op = "grade", !.pc = "g_term",
                         !.a = a, !.pts = pts,
                         !.ld_points = assign[a].points_earned,
                         !.ld_pct = assign[a].percentage_grade,
                         !.ld_letter = assign[a].letter_grade,
                         !.ld_status = assign[a].status,
                         !.pct = calculate_percentage_grade(assign[a], pts),
                         !.letter = StoredLetterGrade(
                            NoLetter,
                            calculate_percentage_grade(assign[a], pts)),
                                      !.student = AssignStudent(a)]]
    /\ UNCHANGED <<rest, dbvars, today>>

\* (a variant that writes the grade columns but not is_graded)
UpdatedAssignmentUngraded(row, r) ==
    [row EXCEPT
       !.points_earned = IF r.pts # r.ld_points THEN r.pts ELSE @,
       !.percentage_grade = IF r.pct # r.ld_pct THEN r.pct ELSE @,
       !.letter_grade = IF r.letter # r.ld_letter THEN r.letter ELSE @,
       !.status = IF r.ld_status # "graded" THEN "graded" ELSE @]

\* the assignment row after the session's UPDATE: a column is written only
\* when the value set on the loaded object differs from the loaded one, so
\* a column this request leaves at its loaded value keeps what another
\* request committed meanwhile
UpdatedAssignment(row, r) ==
    [row EXCEPT
       !.points_earned = IF r.pts # r.ld_points THEN r.pts ELSE @,
       !.percentage_grade = IF r.pct # r.ld_pct THEN r.pct ELSE @,
       !.letter_grade = IF r.letter # r.ld_letter THEN r.letter ELSE @,
       !.is_graded = TRUE,
       !.status = IF r.ld_status # "graded" THEN "graded" ELSE @]

\* assignment.update_term_grade(db); db.commit(); db.refresh(assignment)
\* (assignments.py:653-656).  Whether update_term_grade commits or returns
\* early, the grade and the roll-up reach the store in ONE commit.  The
\* UPDATE of an assignment deleted meanwhile matches nothing and raises.
GradeCommit(p) ==
    LET r == req[p] IN
    /\ r.pc = "g_term"
    /\ IF ~assign[r.a].exists
       THEN /\ req' = [req EXCEPT ![p] = Finished("error")]
            /\ UNCHANGED <<assign, stg>>
       ELSE /\ assign' = [assign EXCEPT ![r.a] = UpdatedAssignment(@, r)]
            /\ IF ActiveTerms = {}
               THEN stg' = stg
               ELSE \E t \in ActiveTerms : stg' = update_term_grade(r.a, r.pts, t)
            /\ req' = [req EXCEPT ![p] =
                         [r EXCEPT !.pc = "a_check", !.did_grade = TRUE,
                                   !.ld_points = NoPoints,
                                   !.ld_pct = NoPoints,
                                   !.ld_letter = NoLetter,
                                   !.ld_status = "not_started"]]
    /\ UNCHANGED <<rest, users, terms, term_subjects, sp, ledger, next_tx_id,
                   setting, today, nreq>>

\* PointTransactionCreate(amount: int) of a Float: a value with a fractional
\* part is refused
IsWholePoints(pts) == pts % PointsScale = 0

\* assignments.py:659-668: the enabled check and award_assignment_points up
\* to the call of create_point_transaction, inside the try
GradeAward(p) ==
    LET r == req[p] IN
    /\ r.pc = "a_check"
    /\ IF ~is_points_system_enabled
       THEN req' = [req EXCEPT ![p] = Finished("ok")]
       ELSE IF ~IsWholePoints(r.pts)
       THEN req' = [req EXCEPT ![p] = Finished("ok_award_failed")]
       ELSE req' = [req EXCEPT ![p] =
                      [r EXCEPT !.pc = "a_query",
                                !.amount = r.pts \div PointsScale,
                                !.ttype = "assignment", !.source = r.a,
                                !.tx_pending = TRUE]]
    /\ UNCHANGED <<rest, dbvars, today, nreq>>


\* ------------------------------------------- StudentAssignment.update_status
\* (a variant that leaves the status as it was set)
update_status_keeping_what_was_set(row, day) == row

\* the status that follows from the row: graded, else submitted, else in
\* progress, else overdue when the effective due date has passed, else
\* not started
update_status(row, day) ==
    LET effective_due_date ==
            IF row.extended_due_date # NoDay THEN row.extended_due_date
            ELSE row.due_date
    IN  [row EXCEPT !.status =
           IF row.is_graded THEN "graded"
           ELSE IF row.submitted_date # NoDay THEN "submitted"
           ELSE IF row.started_date # NoDay THEN "in_progress"
           ELSE IF effective_due_date # NoDay /\ day > effective_due_date
                THEN "overdue"
           ELSE "not_started"]

\* ------------------------------------------------- complete_assignment
\* completed_date and submitted_date = date.today(), started_date too when
\* it is not set, update_status; one commit
CompleteAssignment(a) ==
    /\ Receive
    /\ assign[a].exists
    /\ AssignStudent(a) \in users
    /\ assign' = [assign EXCEPT ![a] =
                    update_status(
                        [@ EXCEPT !.completed_date = today,
                                  !.submitted_date = today,
                                  !.started_date =
                                      IF @ = NoDay THEN today ELSE @],
                        today)]
    /\ UNCHANGED <<rest, users, terms, term_subjects, stg, sp, ledger, next_tx_id,
                   setting, today, req>>

\* the calendar moves on
AdvanceDay ==
    /\ today < MaxDay
    /\ today' = today + 1
    /\ UNCHANGED <<rest, dbvars, nreq, req>>

\* ------------------------------------------------- TermGradingService
CompletedInTerm(b, t) ==
    /\ assign[b].exists
    /\ assign[b].completed_date # NoDay
    /\ assign[b].completed_date >= terms[t].start_date
    /\ assign[b].completed_date <= terms[t].end_date

\* auto_link_subjects_to_terms(db, term_id): the TermSubject table after it
auto_link_subjects_to_terms(links, t) ==
    links \cup
      {<<t, AssignSubject(b)>> : b \in {c \in Assignments : CompletedInTerm(c, t)}}

\* term_grading.py:146-163: graded assignments of the student and subject
\* completed within the term
GradedInTerm(s, subj, t) ==
    {b \in Assignments :
        /\ CompletedInTerm(b, t)
        /\ AssignStudent(b) = s
        /\ AssignSubject(b) = subj
        /\ assign[b].is_graded}

\* term_grading.py:165-212: one StudentTermGrade row after the service
ServiceTermGrade(old, s, subj, t) ==
    LET G == GradedInTerm(s, subj, t)
        found == IF old.exists THEN old ELSE NewTermGrade
        total_points_earned ==
            SumOver(G, [b \in Assignments |->
                          IF assign[b].points_earned = NoPoints THEN 0
                          ELSE assign[b].points_earned])
        total_points_possible ==
            SumOver(G, [b \in Assignments |->
                          PointsScale * max_points(assign[b])])
        current_percentage ==
            Percentage(total_points_earned, total_points_possible)
    IN  IF G = {} THEN old
        ELSE [found EXCEPT
                !.current_points_earned = total_points_earned,
                !.current_points_possible = total_points_possible,
                !.current_percentage = current_percentage,
                !.current_letter_grade =
                    _calculate_letter_grade(current_percentage),
                !.assignments_completed = Cardinality(G),
                !.assignments_total = Cardinality(G)]

\* calculate_student_term_grades(db, term_id, student_id): the
\* StudentTermGrade table after it, given the links after auto-linking
calculate_student_term_grades(table, links, t, who) ==
    [k \in Students \X TermIds \X Subjects |->
        IF /\ k[2] = t
           /\ k[1] \in users
           /\ who \in {"all", k[1]}
           /\ <<t, k[3]>> \in links
        THEN ServiceTermGrade(table[k], k[1], k[3], t)
        ELSE table[k]]

\* POST /terms/{term_id}/calculate-grades
CalculateTermGrades(t, who) ==
    /\ Receive
    /\ IF ~terms[t].exists
       THEN UNCHANGED <<term_subjects, stg>>
       ELSE /\ term_subjects' = auto_link_subjects_to_terms(term_subjects, t)
            /\ stg' = calculate_student_term_grades(stg, term_subjects', t, who)
    /\ UNCHANGED <<rest, users, assign, terms, sp, ledger, next_tx_id, setting,
                   today, req>>

\* ---------------------------------------------------------- delete_user
\* Deleting a student: the assignments are bulk-deleted, db.delete(user)
\* cascades to student_points and point_transactions (User relationships,
\* cascade="all, delete-orphan"), one commit.  student_term_grades has a
\* foreign key to the user and no cascade: with such a row the commit
\* raises and nothing is deleted.
DeleteUser(s) ==
    /\ Receive
    /\ s \in users
    /\ IF \E k \in DOMAIN stg : k[1] = s /\ stg[k].exists
       THEN UNCHANGED <<users, assign, sp, ledger>>
       ELSE /\ users' = users \ {s}
            /\ assign' = [a \in Assignments |->
                            IF AssignStudent(a) = s
                            THEN [NewAssignment(a) EXCEPT !.exists = FALSE]
                            ELSE assign[a]]
            /\ sp' = [sp EXCEPT ![s] = NoStudentPoints]
            /\ ledger' = {tx \in ledger : tx.student_id # s}
    /\ UNCHANGED <<rest, terms, term_subjects, stg, next_tx_id, setting, today,
                   req>>

\* ------------------------------------------------ update_student_assignment
\* PUT /student-assignments/{id} with custom_max_points: the field is set,
\* update_status runs, one commit.  percentage_grade and letter_grade are
\* not among the fields it writes.
UpdateStudentAssignment(a, cmax) ==
    /\ Receive
    /\ IF ~assign[a].exists \/ AssignStudent(a) \notin users
       THEN UNCHANGED assign
       ELSE assign' = [assign EXCEPT ![a] =
                         update_status([@ EXCEPT !.custom_max_points = cmax],
                                       today)]
    /\ UNCHANGED <<rest, users, terms, term_subjects, stg, sp, ledger,
                   next_tx_id, setting, today, req>>

\* the statuses and due dates a request body carries
SentStatuses == {"in_progress", "submitted", "graded", "excused"}
SentDueDates == {NoDay, 1}

\* the row after the status workflow and the setattr loop of a body with
\* a status and, when due is a day, a due_date
WithSentStatus(row, st, due, day) ==
    LET dated ==
            IF st = "in_progress" /\ row.started_date = NoDay
            THEN [row EXCEPT !.started_date = day]
            ELSE IF st = "submitted" /\ row.submitted_date = NoDay
            THEN [row EXCEPT !.submitted_date = day,
                             !.started_date = IF @ = NoDay THEN day ELSE @]
            ELSE row
    IN  [dated EXCEPT !.status = st,
                      !.due_date = IF due # NoDay THEN due ELSE @]

\* PUT /student-assignments/{id} with a status (and maybe a due_date) in
\* the body: 404 without the row or its student; the dates the status
\* transition sets, setattr of every field sent, update_status, one commit
UpdateAssignmentStatus(p, a, st, due) ==
    /\ Receive
    /\ IF ~assign[a].exists \/ AssignStudent(a) \notin users
       THEN /\ UNCHANGED assign
            /\ req' = [req EXCEPT ![p] = Finished("error")]
       ELSE /\ assign' = [assign EXCEPT ![a] =
                           update_status(WithSentStatus(@, st, due, today),
                                         today)]
            /\ req' = [req EXCEPT ![p] =
                         [Finished("ok") EXCEPT !.op = "update", !.a = a,
                                                !.sent_status = st]]
    /\ UNCHANGED <<rest, users, terms, term_subjects, stg, sp, ledger,
                   next_tx_id, setting, today>>

\* POST /student-assignments/{id}/start: 404 without the row or its
\* student; a row not started yet gets started_date = today and
\* update_status, one commit
StartAssignment(a) ==
    /\ Receive
    /\ IF ~assign[a].exists \/ AssignStudent(a) \notin users
          \/ assign[a].started_date # NoDay
       THEN UNCHANGED assign
       ELSE assign' = [assign EXCEPT ![a] =
                         update_status([@ EXCEPT !.started_date = today],
                                       today)]
    /\ UNCHANGED <<rest, users, terms, term_subjects, stg, sp, ledger,
                   next_tx_id, setting, today, req>>

\* POST /student-assignments/{id}/archive: 404 without the row, 403
\* without its student; status = EXCUSED, one commit
ArchiveStudentAssignment(a) ==
    /\ Receive
    /\ IF ~assign[a].exists \/ AssignStudent(a) \notin users
       THEN UNCHANGED assign
       ELSE assign' = [assign EXCEPT ![a].status = "excused"]
    /\ UNCHANGED <<rest, users, terms, term_subjects, stg, sp, ledger,
                   next_tx_id, setting, today, req>>

\* PUT /templates/{id} with max_points, for the template of assignment a:
\* setattr on the template, one commit
UpdateAssignmentTemplate(a, m) ==
    /\ Receive
    /\ IF ~assign[a].exists
       THEN UNCHANGED assign
       ELSE assign' = [assign EXCEPT ![a].template_max_points = m]
    /\ UNCHANGED <<rest, users, terms, term_subjects, stg, sp, ledger,
                   next_tx_id, setting, today, req>>

\* --------------------------------------------- StudentTermGrade.finalize_grade
finalize_grade(g, finalizer_id) ==
    [g EXCEPT !.final_points_earned = g.current_points_earned,
              !.final_points_possible = g.current_points_possible,
              !.final_percentage = g.current_percentage,
              !.final_letter_grade = g.current_letter_grade,
              !.is_finalized = TRUE,
              !.finalized_date = today,
              !.finalized_by = finalizer_id]

\* finalize_grade on a stored row, committed by its caller.  No route of
\* the application calls it, so it is no request that is received.
FinalizeGrade(k, finalizer_id) ==
    /\ stg[k].exists
    /\ stg' = [stg EXCEPT ![k] = finalize_grade(@, finalizer_id)]
    /\ UNCHANGED <<rest, users, assign, terms, term_subjects, sp, ledger,
                   next_tx_id, setting, today, nreq, req>>

\* ---------------------------------------------------------- specifications
\* the steps of the request handlers
Step(p) ==
    \/ \E a \in Assignments, pts \in GradePoints : GradeBegin(p, a, pts)
    \/ GradeCommit(p)
    \/ GradeAward(p)
    \/ \E s \in Students, amt \in AdjustAmounts : AdjustBegin(p, s, amt)
    \/ AwardQuery(p)
    \/ AwardCreate(p)
    \/ AwardCommit(p)

\* requests that are one commit
Single ==
    \/ TogglePoints
    \/ \E a \in Assignments : CompleteAssignment(a)
    \/ \E t \in TermIds, who \in Students \cup {"all"} :
          CalculateTermGrades(t, who)
    \/ \E s \in Students : DeleteUser(s)
    \/ AdvanceDay

\* what may go wrong while a request is served
Fault ==
    \/ \E p \in Procs : AwardFail(p)
    \/ \E p \in Procs : Crash(p)

AllIdle == \A p \in Procs : req[p].pc = "idle"

\* a deployment with a single worker process serves every request with it
Worker == CHOOSE p \in Procs : TRUE

\* the next handler step of the one request being served, or a new request
OneAtATime ==
    \/ \E a \in Assignments, pts \in GradePoints :
          AllIdle /\ GradeBegin(Worker, a, pts)
    \/ GradeCommit(Worker)
    \/ GradeAward(Worker)
    \/ \E s \in Students, amt \in AdjustAmounts :
          AllIdle /\ AdjustBegin(Worker, s, amt)
    \/ AwardQuery(Worker)
    \/ AwardCreate(Worker)
    \/ AwardCommit(Worker)
    \/ AllIdle /\ TogglePoints
    \/ \E a \in Assignments : AllIdle /\ CompleteAssignment(a)
    \/ \E t \in TermIds, who \in Students \cup {"all"} :
          AllIdle /\ CalculateTermGrades(t, who)
    \/ \E s \in Students : AllIdle /\ DeleteUser(s)
    \/ AllIdle /\ AdvanceDay

Next == (\E p \in Procs : Step(p)) \/ Single \/ Fault

\* requests served concurrently, with failures and crashes
Spec == Init /\ [][Next]_vars

NextConc == (\E p \in Procs : Step(p)) \/ Single

\* requests served concurrently, every one to its end
SpecConc == Init /\ [][NextConc]_vars

NextSeq == OneAtATime

\* requests served one at a time, every one to its end
SpecSeq == Init /\ [][NextSeq]_vars

NextCrash == OneAtATime \/ Fault

\* grading, the term roll-up and its finalization, one request at a time
GradesOneAtATime ==
    \/ \E a \in Assignments, pts \in GradePoints :
          AllIdle /\ GradeBegin(Worker, a, pts)
    \/ GradeCommit(Worker)
    \/ GradeAward(Worker)
    \/ \E a \in Assignments : AllIdle /\ CompleteAssignment(a)
    \/ \E t \in TermIds, who \in Students \cup {"all"} :
          AllIdle /\ CalculateTermGrades(t, who)
    \/ \E k \in DOMAIN stg, adm \in Admins :
          AllIdle /\ FinalizeGrade(k, adm)
    \/ \E a \in Assignments, m \in MaxPointChoices :
          AllIdle /\ UpdateStudentAssignment(a, m)
    \/ \E a \in Assignments, m \in MaxPointChoices :
          AllIdle /\ UpdateAssignmentTemplate(a, m)
    \/ AllIdle /\ AdvanceDay

NextGrades == GradesOneAtATime

\* the assignment whose status the requests below write
StatusAssignments == {"a1"}

\* the requests that write the status of an assignment, one at a time
NextStatus ==
    \/ \E a \in StatusAssignments, pts \in {0, PointsScale} :
          AllIdle /\ GradeBegin(Worker, a, pts)
    \/ GradeCommit(Worker)
    \/ GradeAward(Worker)
    \/ \E a \in StatusAssignments : AllIdle /\ StartAssignment(a)
    \/ \E a \in StatusAssignments : AllIdle /\ CompleteAssignment(a)
    \/ \E a \in StatusAssignments, st \in SentStatuses, due \in SentDueDates :
          AllIdle /\ UpdateAssignmentStatus(Worker, a, st, due)
    \/ \E a \in StatusAssignments : AllIdle /\ ArchiveStudentAssignment(a)
    \/ AllIdle /\ AdvanceDay

\* requests served one at a time, with failures and crashes
SpecCrash == Init /\ [][NextCrash]_vars

\* grading and term requests served one at a time, the points system unset
SpecGrades == Init /\ [][NextGrades]_vars

\* the status requests served one at a time
SpecStatus == Init /\ [][NextStatus]_vars


\* ---------------------------------------------------------- routers/terms.py
\* the terms other than t whose term_order is ord (one academic year)
OrderTaken(t, ord) ==
    \E u \in TermIds \ {t} : terms[u].exists /\ terms[u].term_order = ord

\* POST /terms: 400 when start_date >= end_date or the (academic_year,
\* term_order) pair is taken; the new row has the column default is_active
\* = False (TermCreate has no is_active)
CreateTerm(t, st, en, ord) ==
    /\ Receive
    /\ ~terms[t].exists
    /\ IF st >= en \/ OrderTaken(t, ord)
       THEN UNCHANGED terms
       ELSE terms' = [terms EXCEPT ![t] =
                        [exists |-> TRUE, is_active |-> FALSE,
                         start_date |-> st, end_date |-> en,
                         term_order |-> ord]]
    /\ UNCHANGED <<rest, users, assign, term_subjects, stg, sp, ledger,
                   next_tx_id, setting, today, req>>

\* the setattr loop of update_term over the fields given: is_active (act),
\* start_date (st, NoDay when not given), term_order (ord, 0 when not given)
UpdatedTerms(t, act, st, ord) ==
    [terms EXCEPT
        ![t].is_active = IF act = "unset" THEN @ ELSE act = "true",
        ![t].start_date = IF st = NoDay THEN @ ELSE st,
        ![t].term_order = IF ord = 0 THEN @ ELSE ord]

\* PUT /terms/{id}: 404, the date check on the given or stored dates, the
\* order check only when academic_year (yr) and term_order are both given,
\* then setattr of every given field and one commit
UpdateTerm(t, act, st, ord, yr) ==
    /\ Receive
    /\ IF \/ ~terms[t].exists
          \/ (IF st = NoDay THEN terms[t].start_date ELSE st)
                >= terms[t].end_date
          \/ (yr /\ ord # 0 /\ OrderTaken(t, ord))
       THEN UNCHANGED terms
       ELSE terms' = UpdatedTerms(t, act, st, ord)
    /\ UNCHANGED <<rest, users, assign, term_subjects, stg, sp, ledger,
                   next_tx_id, setting, today, req>>

\* activate_term: UPDATE of every Term row to is_active = False, then
\* term.is_active = True
ActivatedTerms(t) ==
    [u \in TermIds |-> [terms[u] EXCEPT !.is_active = (u = t)]]

\* POST /terms/{id}/activate: 404, else the two updates in one commit
ActivateTerm(t) ==
    /\ Receive
    /\ IF ~terms[t].exists
       THEN UNCHANGED terms
       ELSE terms' = ActivatedTerms(t)
    /\ UNCHANGED <<rest, users, assign, term_subjects, stg, sp, ledger,
                   next_tx_id, setting, today, req>>

\* DELETE /terms/{id}: 404; 400 when the term has term_subjects
DeleteTerm(t) ==
    /\ Receive
    /\ IF ~terms[t].exists \/ \E subj \in Subjects : <<t, subj>> \in term_subjects
       THEN UNCHANGED terms
       ELSE terms' = [terms EXCEPT ![t] = NoTerm]
    /\ UNCHANGED <<rest, users, assign, term_subjects, stg, sp, ledger,
                   next_tx_id, setting, today, req>>

\* activate_term step by step, for requests served concurrently.
\* The lookup of the term (404).
ActivateBegin(p, t) ==
    /\ req[p].pc = "idle"
    /\ Receive
    /\ IF ~terms[t].exists
       THEN req' = [req EXCEPT ![p] = Finished("error")]
       ELSE req' = [req EXCEPT ![p] =
                      [IdleReq EXCEPT !.op = "activate", !.pc = "t_update",
                                      !.term = t]]
    /\ UNCHANGED <<rest, dbvars, today>>

\* another request has run its UPDATE of the Term rows and not committed
\* yet: the rows are locked and an UPDATE of them waits
TermRowsLocked(p) == \E q \in Procs \ {p} : req[q].pc = "t_commit"

\* db.query(Term).update({Term.is_active: False}): the statement runs at
\* once, inside the transaction, on every row there is; its changes are
\* seen by others with the commit
ActivateUpdate(p) ==
    /\ req[p].pc = "t_update"
    /\ ~TermRowsLocked(p)
    /\ req' = [req EXCEPT ![p].pc = "t_commit",
                          ![p].updated = {u \in TermIds : terms[u].exists}]
    /\ UNCHANGED <<rest, dbvars, today, nreq>>

\* (a variant that leaves the rows of the other terms as they are)
CommittedActivationKeepingOthers(r) ==
    [terms EXCEPT ![r.term].is_active = TRUE]

\* the Term table after the commit of the request: the rows the UPDATE
\* went over are inactive, the term of the request is active
CommittedActivation(r) ==
    [u \in TermIds |->
       IF u = r.term THEN [terms[u] EXCEPT !.is_active = TRUE]
       ELSE IF u \in r.updated THEN [terms[u] EXCEPT !.is_active = FALSE]
       ELSE terms[u]]

\* term.is_active = True; db.commit()
ActivateCommit(p) ==
    /\ req[p].pc = "t_commit"
    /\ terms' = CommittedActivation(req[p])
    /\ req' = [req EXCEPT ![p] = Finished("ok")]
    /\ UNCHANGED <<rest, users, assign, term_subjects, stg, sp, ledger,
                   next_tx_id, setting, today, nreq>>

NextActivate ==
    \/ \E p \in Procs, t \in TermIds : ActivateBegin(p, t)
    \/ \E p \in Procs : ActivateUpdate(p)
    \/ \E p \in Procs : ActivateCommit(p)
    \/ \E t \in TermIds, st \in Days, en \in 1..(MaxDay + 1),
          ord \in TermOrders : CreateTerm(t, st, en, ord)

\* activate_term requests served concurrently, and create_term
SpecActivate == Init /\ [][NextActivate]_vars

TermRequests ==
    \/ \E t \in TermIds, st \in Days, en \in 1..(MaxDay + 1),
          ord \in TermOrders : CreateTerm(t, st, en, ord)
    \/ \E t \in TermIds, act \in {"unset", "true", "false"},
          st \in Days \cup {NoDay}, ord \in TermOrders \cup {0},
          yr \in BOOLEAN : UpdateTerm(t, act, st, ord, yr)
    \/ \E t \in TermIds : ActivateTerm(t)
    \/ \E t \in TermIds : DeleteTerm(t)

NextTerms == TermRequests

\* the term requests, served one at a time
SpecTerms == Init /\ [][NextTerms]_vars

\* ----------------------------------------------------- routers/attendance.py
\* the committed AttendanceRecord rows of student s on date d
RecordsOf(s, d) == {r \in attendance : r.student_id = s /\ r.date = d}

AttendanceRow(id, s, d, st) ==
    [id |-> id, student_id |-> s, date |-> d, status |-> st]

\* POST /attendance: 404 without the student, 400 when a record of the
\* student and date exists, else one insert and commit
CreateAttendanceRecord(s, d, st) ==
    /\ Receive
    /\ IF s \notin users \/ RecordsOf(s, d) # {}
       THEN UNCHANGED <<attendance, next_att_id>>
       ELSE /\ attendance' =
                 attendance \cup {AttendanceRow(next_att_id, s, d, st)}
            /\ next_att_id' = next_att_id + 1
    /\ UNCHANGED <<dbvars, today, req, calc>>

\* the places of the list for which the loop of the bulk request finds no
\* record: the queries see committed rows only (autoflush=False), so a
\* record added for an earlier place of the list is not found
PlacesWithoutRecord(student_ids, d) ==
    {i \in DOMAIN student_ids : RecordsOf(student_ids[i], d) = {}}

\* the rows the loop adds, one per such place
AddedRecords(student_ids, d, st) ==
    LET P == PlacesWithoutRecord(student_ids, d)
    IN  {AttendanceRow(
           next_att_id + Cardinality({j \in P : j < i}),
           student_ids[i], d, st) : i \in P}

\* POST /attendance/bulk: 404 when a listed student is missing; for every
\* place of the list the record found (found[s], the one .first() returns)
\* gets the status, or a new record is added; one commit at the end
CreateBulkAttendanceRecords(student_ids, d, st) ==
    /\ Receive
    /\ IF \E i \in DOMAIN student_ids : student_ids[i] \notin users
       THEN UNCHANGED <<attendance, next_att_id>>
       ELSE \E found \in [Students -> attendance \cup {NoCall}] :
              /\ \A s \in Students :
                    IF RecordsOf(s, d) = {} THEN found[s] = NoCall
                    ELSE found[s] \in RecordsOf(s, d)
              /\ attendance' =
                   {IF \E i \in DOMAIN student_ids : found[student_ids[i]] = r
                    THEN [r EXCEPT !.status = st] ELSE r : r \in attendance}
                   \cup AddedRecords(student_ids, d, st)
              /\ next_att_id' =
                   next_att_id
                   + Cardinality(PlacesWithoutRecord(student_ids, d))
    /\ UNCHANGED <<dbvars, today, req, calc>>

\* PUT /attendance/{id}: 404 without the record, 403 without its student,
\* else setattr of the status and commit
UpdateAttendanceRecord(id, st) ==
    /\ Receive
    /\ attendance' =
         {IF r.id = id /\ r.student_id \in users
          THEN [r EXCEPT !.status = st] ELSE r : r \in attendance}
    /\ UNCHANGED <<dbvars, today, req, calc, next_att_id>>

\* DELETE /attendance/{id}
DeleteAttendanceRecord(id) ==
    /\ Receive
    /\ attendance' =
         {r \in attendance : ~(r.id = id /\ r.student_id \in users)}
    /\ UNCHANGED <<dbvars, today, req, calc, next_att_id>>

NextAttendance ==
    \/ \E s \in Students, d \in Days, st \in MarkedStatuses :
          CreateAttendanceRecord(s, d, st)
    \/ \E student_ids \in StudentIdLists, d \in Days, st \in MarkedStatuses :
          CreateBulkAttendanceRecords(student_ids, d, st)
    \/ \E r \in attendance, st \in MarkedStatuses :
          UpdateAttendanceRecord(r.id, st)
    \/ \E r \in attendance : DeleteAttendanceRecord(r.id)

\* the attendance requests, served one at a time
SpecAttendance == Init /\ [][NextAttendance]_vars

\* --------------------------------------------- functions that touch no row
\* the letter part of grade_student_assignment for an assignment of
\* MaxLetterPoints points: the percentage of pts and the letter stored
GradeLetterCall(pts, given) ==
    LET row == [NewAssignment("a1") EXCEPT
                  !.custom_max_points = MaxLetterPoints]
        percentage == calculate_percentage_grade(row, pts)
    IN  /\ calc = NoCall
        /\ calc' = [NoCall EXCEPT
                      !.fn = "grade_letter", !.points = pts,
                      !.given = given, !.percentage = percentage,
                      !.letter = StoredLetterGrade(given, percentage)]
        /\ UNCHANGED <<dbvars, today, nreq, req, attendance, next_att_id>>

\* sum(1 for r in attendance_records if r.status == st)
CountStatus(records, st) ==
    Cardinality({i \in DOMAIN records : records[i] = st})

\* (a variant whose denominator is the number of records)
calculate_attendance_rate_of_records(records, required) ==
    LET acceptable_days == CountStatus(records, "present")
                           + CountStatus(records, "late")
                           + CountStatus(records, "excused")
    IN  IF Len(records) > 0
        THEN (acceptable_days * 100 * PctScale) \div Len(records)
        ELSE 0

\* utils/attendance.py calculate_attendance_rate, in units of 1/PctScale
calculate_attendance_rate(records, required) ==
    LET present_days == CountStatus(records, "present")
        late_days == CountStatus(records, "late")
        excused_days == CountStatus(records, "excused")
        acceptable_days == present_days + late_days + excused_days
    IN  IF required > 0
        THEN (acceptable_days * 100 * PctScale) \div required
        ELSE 0

AttendanceRateCall(records, required) ==
    /\ calc = NoCall
    /\ calc' = [NoCall EXCEPT
                  !.fn = "attendance_rate", !.records = records,
                  !.required = required,
                  !.rate = calculate_attendance_rate(records, required)]
    /\ UNCHANGED <<dbvars, today, nreq, req, attendance, next_att_id>>

NextCalc ==
    \/ \E pts \in 0..(PointsScale * MaxLetterPoints),
          given \in {NoLetter, "B"} : GradeLetterCall(pts, given)
    \/ \E records \in StatusLists, required \in 0..MaxRequired :
          AttendanceRateCall(records, required)

\* one call of one of the two functions per behaviour, on every input
\* within the bounds (a call depends on no earlier call)
SpecCalc == Init /\ [][NextCalc]_vars

\* ------------------------------------------------------------- the claims
\* StudentPoints.current_balance, an absent row counting as 0
BalanceOf(s) == IF sp[s].exists THEN sp[s].current_balance ELSE 0

\* C1: with requests served one at a time and to their end, whenever no
\* request is being served the ledger amounts of every student add up to
\* the student's current_balance.
C1_BalanceEqualsLedgerSum ==
    AllIdle => \A s \in Students : LedgerSum(s) = BalanceOf(s)

\* a student with an assignment award and an admin deduction on the ledger
C1_Witness ==
    /\ AllIdle
    /\ \E s \in Students :
          /\ \E tx \in LedgerOf(s) : tx.transaction_type = "assignment"
                                     /\ tx.amount > 0
          /\ \E tx \in LedgerOf(s) : tx.transaction_type = "admin_deduction"
                                     /\ tx.amount < 0

\* C2: with requests running concurrently (none failing), once all of them
\* have committed, every student's StudentPoints row carries the sum of the
\* student's ledger amounts: no balance update is lost.
C2_NoLostUpdate ==
    (\A p \in Procs : req[p].pc = "idle")
        => \A s \in Students :
              sp[s].exists => sp[s].current_balance = LedgerSum(s)

\* C3: in every committed state, also between the steps of
\* create_point_transaction and after a crash, every ledger row's amount is
\* part of its student's current_balance.
C3_LedgerRowReflectedInBalance ==
    \A s \in Students :
        /\ LedgerOf(s) # {} => sp[s].exists
        /\ sp[s].exists => LedgerSum(s) = sp[s].current_balance

\* the effects a request in its points step has committed are all of them
\* or none.  Its balance change is written by the final commit only, so
\* before that commit it is in the store only when there is nothing to write.
AllOrNothing(r) ==
    \/ r.did_grade /\ r.did_tx /\ r.amount = 0
    \/ ~r.did_grade /\ ~r.did_tx /\ ~r.did_create

\* C4: a grading request that stops while its points are being awarded has
\* committed all of its effects (grade with roll-up, ledger row, balance
\* change) or none of them.
C4_GradingAllOrNothing ==
    [][\A p \in Procs :
          (/\ req[p].op = "grade"
           /\ req[p].pc \in {"a_query", "a_create", "a_update"}
           /\ req'[p].outcome = "crashed")
          => AllOrNothing(req[p])]_vars

\* C5: a grading request whose points step raised ends with a success
\* response, its grade committed, and has committed no PointTransaction row
\* and no change to StudentPoints (no row created, no balance changed).
C5_FailedAwardLeavesNoTrace ==
    [][\A p \in Procs :
          (/\ req[p].op = "grade"
           /\ req[p].pc # "idle"
           /\ req'[p].outcome = "ok_award_failed")
          => /\ req[p].did_grade
             /\ ~req[p].did_tx /\ ~req[p].did_create]_vars

\* C6 (as claimed): no step removes or changes a committed PointTransaction.
C6_LedgerAppendOnly == [][ledger \subseteq ledger']_vars

\* C6 (amended): a committed PointTransaction stays, unchanged, for as long
\* as its student's user exists; rows disappear only with their student.
C6_LedgerAppendOnlyWhileStudentExists ==
    [][\A tx \in ledger : tx \in ledger' \/ tx.student_id \notin users']_vars

\* two committed ledger rows: the first one has outlived a later request
C6_Witness ==
    \E tx1, tx2 \in ledger : tx1.id < tx2.id /\ tx1.student_id \in users

\* C7: every StudentPoints row has current_balance = total_earned - total_spent.
C7_BalanceIsEarnedMinusSpent ==
    \A s \in Students :
        sp[s].exists =>
            sp[s].current_balance = sp[s].total_earned - sp[s].total_spent

\* C8: total_earned and total_spent of a StudentPoints row never decrease.
C8_TotalsNeverDecrease ==
    [][\A s \in Students :
          (sp[s].exists /\ sp'[s].exists)
          => /\ sp'[s].total_earned >= sp[s].total_earned
             /\ sp'[s].total_spent >= sp[s].total_spent]_vars

\* the student's graded assignments of the subject assigned within the term
GradedTermRows(rows, s, subj, t) ==
    {b \in TermRows(rows, s, subj, t) : rows[b].is_graded}

\* C9: the commit of a grading request for an assignment whose subject is
\* linked to the active term leaves a StudentTermGrade row whose
\* current_points_earned and current_points_possible are the sums over the
\* student's graded assignments of the term, the one just graded included.
C9_RollUpIsSumOfGradedAssignments ==
    [][\A p \in Procs :
          (GradeCommit(p) /\ assign[req[p].a].exists)
          => \A t \in ActiveTerms :
               LET a == req[p].a
                   s == AssignStudent(a)
                   subj == AssignSubject(a)
                   G == GradedTermRows(assign', s, subj, t)
                   g == stg'[<<s, t, subj>>]
               IN  (<<t, subj>> \in term_subjects /\ a \in G)
                   => /\ g.exists
                      /\ g.current_points_earned =
                           SumOver(G, [b \in Assignments |->
                                         assign'[b].points_earned])
                      /\ g.current_points_possible =
                           SumOver(G, [b \in Assignments |->
                                         PointsScale *
                                           max_points(assign'[b])])]_vars

\* the current_* fields and the completion counts of a roll-up row
CurrentFields(g) ==
    <<g.current_points_earned, g.current_points_possible,
      g.current_percentage, g.current_letter_grade,
      g.assignments_completed, g.assignments_total>>

\* C10: on any reachable contents of the store, a second run of either
\* recalculation right after a first one leaves the current_* fields and
\* the completion counts as the first run left them.
C10_RecalculationIdempotent ==
    /\ \A s \in Students, subj \in Subjects, t \in TermIds :
          LET once == RecomputedTermGrade(assign, stg[<<s, t, subj>>],
                                          s, subj, t)
              twice == RecomputedTermGrade(assign, once, s, subj, t)
          IN  CurrentFields(twice) = CurrentFields(once)
    /\ \A t \in TermIds, who \in Students \cup {"all"} :
          LET links == auto_link_subjects_to_terms(term_subjects, t)
              once == calculate_student_term_grades(stg, links, t, who)
              twice == calculate_student_term_grades(
                           once, auto_link_subjects_to_terms(links, t), t, who)
          IN  \A k \in DOMAIN stg :
                 CurrentFields(twice[k]) = CurrentFields(once[k])

\* a roll-up written by a recalculation that had graded points to sum
C10_Witness ==
    \E k \in DOMAIN stg :
        /\ stg[k].exists
        /\ stg[k].current_points_earned > 0
        /\ stg[k].assignments_completed > 0
        /\ \E b \in Assignments : assign[b].is_graded /\ assign[b].points_earned > 0

\* the final_* fields and the finalization stamp of a roll-up row
FinalFields(g) ==
    <<g.final_points_earned, g.final_points_possible, g.final_percentage,
      g.final_letter_grade, g.is_finalized, g.finalized_date, g.finalized_by>>

\* a step of one of the two recalculations
Recalculation ==
    \/ \E p \in Procs : GradeCommit(p)
    \/ \E t \in TermIds, who \in Students \cup {"all"} :
          CalculateTermGrades(t, who)

\* C11: a recalculation (update_term_grade in a grading commit, or
\* calculate_student_term_grades) leaves the final_* fields, is_finalized,
\* finalized_date and finalized_by of every finalized row as they were.
C11_RecalculationKeepsFinalFields ==
    [][\A k \in DOMAIN stg :
          (stg[k].exists /\ stg[k].is_finalized /\ Recalculation)
          => FinalFields(stg'[k]) = FinalFields(stg[k])]_vars

\* a finalized row whose current points a later recalculation has moved
\* away from the final points
C11_Witness ==
    \E k \in DOMAIN stg :
        /\ stg[k].exists /\ stg[k].is_finalized
        /\ stg[k].current_points_earned # stg[k].final_points_earned

\* C12: a recalculation triggered by grading changes no grade field of a
\* finalized row, the current_* fields included.
C12_GradingLeavesFinalizedRowAlone ==
    [][\A k \in DOMAIN stg :
          (stg[k].exists /\ stg[k].is_finalized
             /\ \E p \in Procs : GradeCommit(p))
          => stg'[k] = stg[k]]_vars

\* C13: the commit of a grading request made when no term is active, or
\* when the active term has no link to the assignment's subject, stores the
\* grade, lets the request go on, and leaves every StudentTermGrade row
\* (present or absent) as it was.
C13_NoTermNoRollUp ==
    [][\A p \in Procs :
          (/\ GradeCommit(p)
           /\ assign[req[p].a].exists
           /\ \A t \in ActiveTerms :
                 <<t, AssignSubject(req[p].a)>> \notin term_subjects)
          => /\ stg' = stg
             /\ assign'[req[p].a].is_graded
             /\ assign'[req[p].a].points_earned = req[p].pts
             /\ req'[p].pc = "a_check"]_vars

\* an assignment graded with points while no term was active although the
\* subject is linked: no roll-up row exists
C13_Witness ==
    /\ ActiveTerms = {}
    /\ term_subjects # {}
    /\ \E a \in Assignments : assign[a].is_graded /\ assign[a].points_earned > 0
    /\ \A k \in DOMAIN stg : ~stg[k].exists

\* C14: whatever create_term, update_term, activate_term and delete_term
\* requests were served, at most one Term row has is_active = true.
C14_AtMostOneActiveTerm ==
    Cardinality({t \in TermIds : terms[t].exists /\ terms[t].is_active}) <= 1

\* C15: for every StudentAssignment, percentage_grade is defined exactly
\* when points_earned is non-null and max_points > 0, and then it equals
\* points_earned / max_points * 100 for the max_points the row has now.
C15_PercentageMatchesPoints ==
    \A a \in Assignments :
        assign[a].exists =>
          /\ (assign[a].percentage_grade # NoPoints)
                <=> (assign[a].points_earned # NoPoints
                       /\ max_points(assign[a]) > 0)
          /\ assign[a].percentage_grade # NoPoints
                => assign[a].percentage_grade =
                     Percentage(assign[a].points_earned,
                                PointsScale * max_points(assign[a]))

\* the letter the threshold table gives, D starting at d
TableLetter(percentage, d) ==
    IF percentage >= 97 * PctScale THEN "A+"
    ELSE IF percentage >= 93 * PctScale THEN "A"
    ELSE IF percentage >= 90 * PctScale THEN "A-"
    ELSE IF percentage >= 87 * PctScale THEN "B+"
    ELSE IF percentage >= 83 * PctScale THEN "B"
    ELSE IF percentage >= 80 * PctScale THEN "B-"
    ELSE IF percentage >= 77 * PctScale THEN "C+"
    ELSE IF percentage >= 73 * PctScale THEN "C"
    ELSE IF percentage >= 70 * PctScale THEN "C-"
    ELSE IF percentage >= 67 * PctScale THEN "D+"
    ELSE IF percentage >= d THEN "D"
    ELSE IF percentage >= 60 * PctScale THEN "D-"
    ELSE "F"

\* C16: a grade submitted without a letter gets the letter of the threshold
\* table for its percentage: A+ from 97 down to D+ from 67, D from its
\* threshold (63 or 65), D- from 60 up to the D threshold, F only below 60.
C16_LetterFollowsTable ==
    (calc.fn = "grade_letter" /\ calc.given = NoLetter)
    => \E d \in {63 * PctScale, 65 * PctScale} :
          calc.letter = TableLetter(calc.percentage, d)

C18_OneRecordPerStudentAndDate ==
    \A r1, r2 \in attendance :
        (r1.student_id = r2.student_id /\ r1.date = r2.date) => r1 = r2

\* C19: while the points system is disabled (the setting is "false" or
\* there is no setting row), no step adds a PointTransaction and no step
\* changes a StudentPoints row that stays: grading awards nothing and
\* adjust_student_points is rejected.
C19_DisabledMeansNoPoints ==
    [][(setting = "false" \/ setting = "unset")
         => (/\ ledger' \subseteq ledger
            /\ \A s \in Students :
                  /\ sp'[s].exists => sp[s].exists
                  /\ sp'[s].exists => sp'[s] = sp[s]
            /\ \A p \in Procs :
                  req[p].pc = "idle" /\ req'[p].op = "adjust"
                    => req'[p].pc = "idle" /\ req'[p].outcome = "error")]_vars

\* with no setting row ever written, a grading request with whole points
\* has ended in success and there is neither a ledger row nor a points row
C19_Witness ==
    /\ setting = "unset"
    /\ req[Worker].pc = "idle" /\ req[Worker].outcome = "ok"
    /\ \E a \in Assignments :
          /\ assign[a].is_graded
          /\ assign[a].points_earned >= PointsScale
    /\ ledger = {}
    /\ \A s \in Students : ~sp[s].exists

\* the step that ends an adjust request of process p in success
AdjustDone(p) ==
    /\ req[p].op = "adjust"
    /\ req[p].pc = "a_update"
    /\ req'[p].pc = "idle"
    /\ req'[p].outcome = "ok"

\* C20: an adjust request with signed amount a that succeeds leaves exactly
\* one new PointTransaction (amount a, type admin_award when a > 0 and
\* admin_deduction when a <= 0), whether the row was inserted with a new
\* StudentPoints row or by the final commit; the final commit changes
\* current_balance by a and raises total_earned by a when a > 0, total_spent
\* by |a| otherwise.
C20_AdjustAppendsOneRowAndMovesBalance ==
    [][\A p \in Procs :
        (LET r == req[p]
             s == r.student
             a == r.amount
             type == IF a > 0 THEN "admin_award" ELSE "admin_deduction"
         IN  /\ (r.op = "adjust" /\ r.pc = "a_create"
                   /\ req'[p].pc = "a_update")
                => /\ ledger \subseteq ledger'
                   /\ Cardinality(ledger') = Cardinality(ledger) + 1
                   /\ sp'[s] = [exists |-> TRUE, current_balance |-> 0,
                                total_earned |-> 0, total_spent |-> 0]
             /\ AdjustDone(p)
                => /\ ledger \subseteq ledger'
                   /\ Cardinality(ledger') =
                        Cardinality(ledger) + (IF r.did_tx THEN 0 ELSE 1)
                   /\ \E tx \in ledger' :
                        /\ tx.id = next_tx_id' - 1
                        /\ tx.student_id = s
                        /\ tx.amount = a
                        /\ tx.transaction_type = type
                        /\ ~r.did_tx => tx \notin ledger
                   /\ sp[s].exists /\ sp'[s].exists
                   /\ sp'[s].current_balance = sp[s].current_balance + a
                   /\ sp'[s].total_earned =
                        sp[s].total_earned + (IF a > 0 THEN a ELSE 0)
                   /\ sp'[s].total_spent =
                        sp[s].total_spent + (IF a > 0 THEN 0 ELSE Abs(a)))]_vars

\* an award of 2 and a deduction of 1 were served: balance 1, earned 2,
\* spent 1, and the ledger has the admin_deduction row
C20_Witness ==
    \E s \in Students :
        /\ sp[s] = [exists |-> TRUE, current_balance |-> 1,
                    total_earned |-> 2, total_spent |-> 1]
        /\ \E tx \in ledger :
              /\ tx.student_id = s
              /\ tx.amount = -1
              /\ tx.transaction_type = "admin_deduction"
        /\ req[Worker].outcome = "ok"

\* the step that ends a grading request of process p with a success response
GradeDone(p) ==
    /\ req[p].op = "grade"
    /\ req[p].pc # "idle"
    /\ req'[p].pc = "idle"
    /\ req'[p].outcome \in {"ok", "ok_award_failed"}

\* C21: a grading request that succeeds while the points system is enabled
\* has appended one PointTransaction of type assignment whose amount is the
\* points_earned just graded and whose source_id is the assignment, for
\* every points_earned the endpoint accepts.
C21_GradingAwardsItsPoints ==
    [][\A p \in Procs :
         (GradeDone(p) /\ setting = "true")
         => \E tx \in ledger' :
               /\ tx.id = next_tx_id' - 1
               /\ tx.transaction_type = "assignment"
               /\ tx.source_id = req[p].a
               /\ tx.student_id = req[p].student
               /\ tx.amount * PointsScale = req[p].pts]_vars

\* C22: a grading request whose points_earned exceeds the max_points of the
\* assignment (its custom_max_points, else the template's) ends with an
\* error and changes no row: assignments, StudentTermGrade rows, ledger and
\* balances are as before.
C22_TooManyPointsChangesNothing ==
    [][\A p \in Procs, a \in Assignments, pts \in GradePoints :
         (/\ GradeBegin(p, a, pts)
          /\ assign[a].exists
          /\ pts > PointsScale *
                     (IF assign[a].custom_max_points # NoPoints
                      THEN assign[a].custom_max_points
                      ELSE assign[a].template_max_points))
         => (/\ req'[p].pc = "idle"
             /\ req'[p].outcome = "error"
             /\ dbvars' = dbvars)]_vars

\* a request was refused after an assignment had been graded; in the
\* specification of the grading requests only the check of the maximum
\* refuses one
C22_Witness ==
    /\ req[Worker].pc = "idle"
    /\ req[Worker].outcome = "error"
    /\ \E a \in Assignments : assign[a].is_graded

\* C23: after the recalculation of a grading commit, the current_letter_grade
\* of every StudentTermGrade row is the letter of its current_percentage.
C23_RollUpLetterMatchesPercentage ==
    [][\A k \in DOMAIN stg :
         ((\E p \in Procs : GradeCommit(p)) /\ stg'[k].exists)
         => stg'[k].current_letter_grade =
              _calculate_letter_grade(stg'[k].current_percentage)]_vars

\* the grade fields of an assignment row
GradeFields(row) ==
    <<row.points_earned, row.percentage_grade, row.letter_grade>>

\* C24: when a grading request commits, the stored points_earned,
\* percentage_grade and letter_grade of its assignment are all the ones of
\* that request, also when another grading request for the same assignment
\* ran at the same time: the last commit wins and nothing is mixed.
C24_LastGradingWinsWhole ==
    [][\A p \in Procs :
         (GradeCommit(p) /\ assign[req[p].a].exists)
         => GradeFields(assign'[req[p].a])
              = <<req[p].pts, req[p].pct, req[p].letter>>]_vars

\* C25: a PointTransaction of type assignment is written only after the
\* grade of its assignment was committed: in the state in which the row is
\* inserted, the assignment it names exists with is_graded = true.
C25_AwardOnlyAfterGradeCommitted ==
    [][\A tx \in ledger' \ ledger :
         tx.transaction_type = "assignment"
         => (/\ assign[tx.source_id].exists
             /\ assign[tx.source_id].is_graded)]_vars

\* a ledger row of type assignment for a graded assignment, with the
\* points of the grade
C25_Witness ==
    \E tx \in ledger :
        /\ tx.transaction_type = "assignment"
        /\ assign[tx.source_id].is_graded
        /\ assign[tx.source_id].points_earned = tx.amount * PointsScale
        /\ tx.amount > 0

\* the terms that are active
ActiveTermSet == {t \in TermIds : terms[t].exists /\ terms[t].is_active}

\* C26: with activate_term requests for different terms served at the same
\* time, the commit of each leaves exactly one active term, the one it
\* activated; so once both have committed one term is active, never none
\* and never two.
C26_ConcurrentActivationLeavesOne ==
    [][\A p \in Procs :
         (req[p].pc = "t_commit" /\ req'[p].pc = "idle")
         => ActiveTermSet' = {req[p].term}]_vars

\* two activations of different terms are being served at the same time:
\* one has run its UPDATE and not committed, the other waits for the rows
C26_Witness ==
    \E p, q \in Procs :
        /\ req[p].pc = "t_commit"
        /\ req[q].pc = "t_update"
        /\ req[p].term # req[q].term
        /\ ActiveTermSet # {}

\* the sum of the amounts of the assignment-type ledger rows of assignment
\* a in table
AwardedFor(table, a) ==
    LET rows == {tx \in table : /\ tx.transaction_type = "assignment"
                                /\ tx.source_id = a}
    IN  SumOver({tx.id : tx \in rows},
                [i \in {tx.id : tx \in rows} |->
                   (CHOOSE tx \in rows : tx.id = i).amount])

\* C27: with the points system enabled, when a grading request has been
\* served to its end, the amounts of the assignment-type ledger rows of its
\* assignment add up to the assignment's points_earned, also when the
\* assignment had been graded before.
C27_AwardedPointsEqualGrade ==
    [][\A p \in Procs :
         (/\ req[p].op = "grade"
          /\ req[p].pc # "idle"
          /\ req'[p].pc = "idle"
          /\ req'[p].outcome = "ok"
          /\ setting = "true")
         => AwardedFor(ledger', req[p].a) * PointsScale
              = assign'[req[p].a].points_earned]_vars

\* C28: calculate_attendance_rate returns a percentage between 0 and 100
\* for every list of records and every required_days_of_instruction.
C28_RateWithinPercentRange ==
    calc.fn = "attendance_rate"
    => (calc.rate >= 0 /\ calc.rate <= 100 * PctScale)

\* the four fields both routines store
RollUpSums(g) ==
    <<g.current_points_earned, g.current_points_possible,
      g.assignments_completed, g.assignments_total>>

\* C29: on the same assignment data, for a student and a subject linked to
\* the active term, update_term_grade and calculate_student_term_grades
\* store the same current_points_earned, current_points_possible,
\* assignments_completed and assignments_total (whenever both write the row).
C29_TwoRecalculationsAgree ==
    \A t \in ActiveTerms, s \in Students, subj \in Subjects :
        (/\ <<t, subj>> \in term_subjects
         /\ s \in users
         /\ SumEarned(assign, TermRows(assign, s, subj, t)) # NoPoints
         /\ GradedInTerm(s, subj, t) # {})
        => RollUpSums(RecomputedTermGrade(assign, stg[<<s, t, subj>>],
                                          s, subj, t))
             = RollUpSums(ServiceTermGrade(stg[<<s, t, subj>>], s, subj, t))


\* C30: through assigning, start_assignment, complete_assignment,
\* update_student_assignment (a body that sets status included), grading and
\* archive_student_assignment, an assignment has status graded only if
\* is_graded is true.
C30_GradedStatusOnlyIfGraded ==
    \A a \in Assignments :
        (assign[a].exists /\ assign[a].status = "graded")
            => assign[a].is_graded

\* an update that sent status = graded for an assignment never graded
C30_Witness ==
    \E p \in Procs :
        /\ req[p].op = "update"
        /\ req[p].outcome = "ok"
        /\ req[p].sent_status = "graded"
        /\ assign[req[p].a].exists
        /\ ~assign[req[p].a].is_graded
        /\ assign[req[p].a].status # "graded"

====
